---- MODULE Spec2Model ----
(***************************************************************************)
(* Model of the DapiWrapper class produced by DapiMixin (carpasse/dapi):   *)
(* the facade over the definition's functions, the decorator and hook      *)
(* registries, the plain/decorable transition of each facade entry, the    *)
(* dependency bundle, and facade calls with their order of events.         *)
(*                                                                         *)
(* JavaScript is single threaded: every API method and the synchronous     *)
(* part of every facade call runs to completion, so each is one action.    *)
(* An asynchronous function returns a pending promise; its settlement is   *)
(* a later action that runs the callback registered with then().           *)
(***************************************************************************)
EXTENDS Integers, Sequences, FiniteSets, TLC

\* ------------------------------------------------------------------ bounds
\* Decorators held by the decorator registry at one time, over all keys, while
\* facade calls are made.
MaxDecorators == 2
\* The same while only the registries are worked on.
MaxRegistryDecorators == 4
\* Remover closures the caller keeps to call later (the others are dropped).
MaxRemovers == 1
\* Hooks held by the hook registry at one time, over all keys and phases,
\* while facade calls are made.
MaxHooks == 2
\* The same while only the registries are worked on.
MaxRegistryHooks == 1
\* Asynchronous facade calls in flight at one time.
MaxInflight == 1
\* Decorators and hooks held while calls are made with a throwing function.
MaxFaultDecorators == 1
MaxFaultHooks == 2
\* Decorators and hooks held by an instance createDapi has just made.
MaxDefinitionDecorators == 2
MaxDefinitionHooks == 1
\* Decorators and hooks held while a decorator that does not call next is
\* among them.
MaxShortCircuitDecorators == 3
MaxShortCircuitHooks == 1
\* Decorators and hooks held while every method of the instance is in use.
MaxFrameDecorators == 2
MaxFrameHooks == 1
\* Hooks held while hooks remove themselves during a call.
MaxSelfRemoverHooks == 3
\* Decorators and hooks held while registrations are made key by key.
MaxLocalDecorators == 2
MaxLocalHooks == 2
\* Decorators and hooks an instance holds while another instance is in use.
MaxInstanceDecorators == 1
MaxInstanceHooks == 1
\* Hooks held while closures of addHook are kept.
MaxHookRemoverHooks == 2
\* Decorators and hooks held while a kept instance method is called.
MaxReferenceDecorators == 1
MaxReferenceHooks == 1

\* ------------------------------------------------------------- the fixture
\* The definition's function map: command1 returns its arguments, command3
\* returns a promise of them.
fns == [command1 |-> "sync", command3 |-> "async"]

\* Object.keys(fns), in insertion order.
fnsKeys == <<"command1", "command3">>

Keys == DOMAIN fns

\* Decorator functions handed to addDecorator: each calls method(...args)
\* once and returns its result.
DecoratorFns == {"decorator1", "decorator2"}

\* Hook functions handed to addHook: side effect only.
\* Decorators that return without calling the method they are given.
ShortCircuits == {"shortCircuit"}

\* A hook that calls removeHook(hookType, key, itself) when it runs.
SelfRemovers == {"removesItself"}

HookFns == {"hook1", "hook2"}

HookTypes == {"pre", "post"}

\* Argument lists given to a facade method.
Params == {<<"a1", "a2">>}

\* Dependency bundles: objects with the fields foo and opts.
DepVals == [foo : {"bar", "baz"}, opts : {"extra"}]

\* definition.dependencies as handed to DapiMixin.
dependencies == [foo |-> "bar", opts |-> "extra"]

\* A falsy argument (undefined, null) of setDependencies/updateDependencies.
Falsy == [foo |-> "undefined", opts |-> "undefined"]

\* Partial<DEPENDENCIES>: the fields an updateDependencies argument sets.
\* "-" marks a field the partial does not have.
Partials == [foo : {"baz", "-"}, opts : {"extra", "-"}]

\* Names that are no own key of fns: no property at all, an inherited method.
OtherKeys == {"command4", "toString"}

\* The receiver every function is called with: the DapiWrapper instance.
This == "wrapper"

VARIABLES
  decorators,    \* this.decorators: key -> array of decorators (own keys only)
  hooks,         \* this.hooks: key -> {pre, post} (own keys only)
  decoratedFns,  \* this.__decoratedFns
  facade,        \* this.__facade[key]: which closure is installed
  deps,          \* this.__deps
  definitionDeps,\* this.__definition.dependencies
  removers,      \* the closures addDecorator and decorateAll returned, as kept
  inflight,      \* facade calls whose promise is pending
  lastCall,      \* what the most recent facade call or settlement did
  error,         \* the error the most recent API call threw, or "none"
  definition,    \* the type and fns fields of the definition given to DapiMixin
  wrapper,       \* the DapiWrapper instance createDapi returned, or "none"
  reference,     \* an instance method read off the instance and kept
  other          \* a second instance of the same class: its fields

vars == <<decorators, hooks, decoratedFns, facade, deps, definitionDeps,
          removers, inflight, lastCall, error, definition, wrapper, reference,
          other>>

\* ------------------------------------------------------------ JS helpers
\* An object with no own keys.
EmptyObject == [k \in {} |-> <<>>]

\* Object.hasOwn(obj, key)
HasOwn(obj, key) == key \in DOMAIN obj

\* obj[key] = value
SetKey(obj, key, value) == [k \in DOMAIN obj \cup {key} |-> IF k = key THEN value ELSE obj[k]]

\* delete obj[key]
DeleteKey(obj, key) == [k \in DOMAIN obj \ {key} |-> obj[k]]

\* array.includes(x)
Includes(array, x) == \E i \in 1..Len(array) : array[i] = x

\* array.indexOf(x): the 0-based index of the first element identical to x, or -1.
IndexOf(array, x) ==
  IF Includes(array, x)
    THEN (CHOOSE i \in 1..Len(array) :
            array[i] = x /\ \A j \in 1..(i - 1) : array[j] # x) - 1
    ELSE -1

\* array.splice(index, 1) with a 0-based index: the array that is left.
Splice(array, index) ==
  SubSeq(array, 1, index) \o SubSeq(array, index + 2, Len(array))

\* The functions of a decorator array. An element is [fn, reg]: the function
\* pushed and the registration it is, which is the index in removers of the
\* closure the pushing call returned, or 0 when the caller dropped that closure.
\* The code sees and compares only fn.
FnsOf(array) == [i \in 1..Len(array) |-> array[i].fn]

\* ------------------------------------------------- the decoration engine
\* The registry part of the wrapper, as one value the methods transform.
Registry == [decorators |-> decorators, hooks |-> hooks,
             decoratedFns |-> decoratedFns, facade |-> facade]

\* __makeDecorable(key): install the decorable closure, once.
MakeDecorable(R, key) ==
  IF Includes(R.decoratedFns, key) \/ ~HasOwn(fns, key)
    THEN R
    ELSE [R EXCEPT !.facade = SetKey(@, key, "decorable"),
                   !.decoratedFns = Append(@, key)]

\* unmakeDecorable that looks at the decorators only.
UnmakeDecorableIgnoringHooks(R, key) ==
  IF ~Includes(R.decoratedFns, key) \/ HasOwn(R.decorators, key)
    THEN R
    ELSE [R EXCEPT !.facade = SetKey(@, key, "plain"),
                   !.decoratedFns = Splice(@, IndexOf(@, key))]

\* unmakeDecorable without the includes test: for a key that is not decorated
\* indexOf gives -1 and splice(-1, 1) takes the last decorated key out.
UnmakeDecorableUnguarded(R, key) ==
  IF HasOwn(R.decorators, key) \/ HasOwn(R.hooks, key)
    THEN R
    ELSE [R EXCEPT !.facade = SetKey(@, key, "plain"),
                   !.decoratedFns =
                     IF IndexOf(@, key) # -1
                       THEN Splice(@, IndexOf(@, key))
                       ELSE IF Len(@) = 0 THEN @ ELSE Splice(@, Len(@) - 1)]

\* unmakeDecorable(key): back to the plain closure when nothing is left.
UnmakeDecorable(R, key) ==
  IF ~Includes(R.decoratedFns, key)
     \/ HasOwn(R.decorators, key)
     \/ HasOwn(R.hooks, key)
    THEN R
    ELSE [R EXCEPT !.facade = SetKey(@, key, "plain"),
                   !.decoratedFns = Splice(@, IndexOf(@, key))]

\* typeof this[key]: the facade methods and the inherited methods are functions.
TypeofMember(key) ==
  IF key \in Keys \/ key = "toString" THEN "function" ELSE "undefined"

\* The error addDecorator(key, _) throws, or "none".
AddDecoratorError(key) ==
  IF TypeofMember(key) # "function"
    THEN "TypeError: Cannot decorate non-function property"
    ELSE IF ~HasOwn(fns, key)
      THEN "TypeError: Cannot decorate non-Dapi function property"
      ELSE "none"

\* addDecorator(key, decorator) past its checks; reg numbers the call.
AddDecoratorTo(R, key, decorator, reg) ==
  LET created == IF ~HasOwn(R.decorators, key)
                   THEN SetKey(R.decorators, key, <<>>)
                   ELSE R.decorators
      pushed == SetKey(created, key,
                       Append(created[key], [fn |-> decorator, reg |-> reg]))
  IN MakeDecorable([R EXCEPT !.decorators = pushed], key)

\* removeDecorator without the index !== -1 test: splice(-1, 1) takes the last
\* element.
RemoveDecoratorFromUnchecked(R, key, decorator) ==
  LET has == HasOwn(R.decorators, key)
      index == IF has THEN IndexOf(FnsOf(R.decorators[key]), decorator) ELSE -1
      at == IF index = -1 /\ has THEN Len(R.decorators[key]) - 1 ELSE index
      spliced == IF has
                   THEN SetKey(R.decorators, key, Splice(R.decorators[key], at))
                   ELSE R.decorators
      deleted == IF HasOwn(spliced, key) /\ Len(spliced[key]) = 0
                   THEN DeleteKey(spliced, key)
                   ELSE spliced
  IN UnmakeDecorable([R EXCEPT !.decorators = deleted], key)

\* removeDecorator(key, decorator)
RemoveDecoratorFrom(R, key, decorator) ==
  LET has == HasOwn(R.decorators, key)
      index == IF has THEN IndexOf(FnsOf(R.decorators[key]), decorator) ELSE -1
      spliced == IF has /\ index # -1
                   THEN SetKey(R.decorators, key, Splice(R.decorators[key], index))
                   ELSE R.decorators
      deleted == IF HasOwn(spliced, key) /\ Len(spliced[key]) = 0
                   THEN DeleteKey(spliced, key)
                   ELSE spliced
  IN UnmakeDecorable([R EXCEPT !.decorators = deleted], key)

\* addHook with the typeof test of addDecorator as its only check.
AddHookErrorTypeof(key) ==
  IF TypeofMember(key) # "function"
    THEN "TypeError: Cannot hook to non-function property"
    ELSE "none"

\* The error addHook(_, key, _) throws, or "none".
AddHookError(key) ==
  IF ~Includes(fnsKeys, key)
    THEN "TypeError: Cannot hook to non-function property"
    ELSE "none"

\* addHook(hookType, key, hook) past its check.
AddHookTo(R, hookType, key, hook) ==
  LET created == IF ~HasOwn(R.hooks, key)
                   THEN SetKey(R.hooks, key, [post |-> <<>>, pre |-> <<>>])
                   ELSE R.hooks
      pushed == SetKey(created, key,
                       [created[key] EXCEPT ![hookType] = Append(@, hook)])
  IN MakeDecorable([R EXCEPT !.hooks = pushed], key)

\* The error removeHook(_, key, _) throws, or "none": this.hooks[key][hookType]
\* reads a property of undefined when the key has no hook record.
RemoveHookError(R, key) ==
  IF ~HasOwn(R.hooks, key)
    THEN "TypeError: Cannot read properties of undefined"
    ELSE "none"

\* removeHook that keeps the record of a key whose lists are both empty.
RemoveHookFromKeepsEmpty(R, hookType, key, hook) ==
  LET index == IndexOf(R.hooks[key][hookType], hook)
      spliced == IF index # -1
                   THEN SetKey(R.hooks, key,
                               [R.hooks[key] EXCEPT ![hookType] = Splice(@, index)])
                   ELSE R.hooks
  IN UnmakeDecorable([R EXCEPT !.hooks = spliced], key)

\* removeHook(hookType, key, hook) when the key has a hook record.
RemoveHookFrom(R, hookType, key, hook) ==
  LET index == IndexOf(R.hooks[key][hookType], hook)
      spliced == IF index # -1
                   THEN SetKey(R.hooks, key,
                               [R.hooks[key] EXCEPT ![hookType] = Splice(@, index)])
                   ELSE R.hooks
      deleted == IF HasOwn(spliced, key)
                    /\ Len(spliced[key].pre) = 0 /\ Len(spliced[key].post) = 0
                   THEN DeleteKey(spliced, key)
                   ELSE spliced
  IN UnmakeDecorable([R EXCEPT !.hooks = deleted], key)

\* The remover decorateAll returns: every per-key remover, in the order made.
RECURSIVE RemoveAllFrom(_, _, _)
RemoveAllFrom(R, decorator, i) ==
  IF i > Len(fnsKeys)
    THEN R
    ELSE RemoveAllFrom(RemoveDecoratorFrom(R, fnsKeys[i], decorator), decorator, i + 1)

\* decorateAll that passes over the keys that hold the decorator already.
RECURSIVE DecorateAllOnce(_, _, _, _)
DecorateAllOnce(R, decorator, reg, i) ==
  IF i > Len(fnsKeys)
    THEN R
    ELSE IF HasOwn(R.decorators, fnsKeys[i])
            /\ Includes(FnsOf(R.decorators[fnsKeys[i]]), decorator)
      THEN DecorateAllOnce(R, decorator, reg, i + 1)
      ELSE DecorateAllOnce(AddDecoratorTo(R, fnsKeys[i], decorator, reg),
                           decorator, reg, i + 1)

\* decorateAll(decorator): addDecorator for every key of fns.
RECURSIVE DecorateAllFrom(_, _, _, _)
DecorateAllFrom(R, decorator, reg, i) ==
  IF i > Len(fnsKeys)
    THEN R
    ELSE DecorateAllFrom(AddDecoratorTo(R, fnsKeys[i], decorator, reg),
                         decorator, reg, i + 1)

\* ------------------------------------------------------- a facade call
\* What a call of one function did: the function, its receiver and the
\* arguments it was given (the dependency bundle, then the call's arguments);
\* for a decorator also the method it was handed.
Event(ev, who, args, next) ==
  [ev |-> ev, who |-> who, self |-> This,
   deps |-> args.deps, params |-> args.params, next |-> next]

\* command.call(this, deps, ...params): command1 returns [a1, a2], command3 a
\* pending promise of it.
CommandCall(key, args) ==
  [trace |-> <<Event("fn", key, args, <<>>)>>,
   result |-> [kind |-> IF fns[key] = "async" THEN "promise" ELSE "value",
               value |-> args.params],
   then |-> FALSE]

\* The array with the hook decorator pushed at the end instead.
DecoratorsArrayPush(key) ==
  LET decoratorFns == IF HasOwn(decorators, key) THEN FnsOf(decorators[key]) ELSE <<>>
  IN IF HasOwn(hooks, key)
       THEN decoratorFns \o <<"hookDecorator">>
       ELSE decoratorFns

\* The array the decorable closure builds: a copy of the key's decorators with
\* the hook decorator unshifted in front when the key has a hook record.
DecoratorsArray(key) ==
  LET decoratorFns == IF HasOwn(decorators, key) THEN FnsOf(decorators[key]) ELSE <<>>
  IN IF HasOwn(hooks, key)
       THEN <<"hookDecorator">> \o decoratorFns
       ELSE decoratorFns

\* The same fold taken from the last element to the first (reduceRight).
RECURSIVE ReduceRight(_, _, _)
ReduceRight(array, i, decoratedMethod) ==
  IF i > Len(array)
    THEN decoratedMethod
    ELSE ReduceRight(array, i + 1, <<array[Len(array) + 1 - i]>> \o decoratedMethod)

\* decorators.reduce((decoratedMethod, decorator) => decorator.bind(this,
\* decoratedMethod), command.bind(this)), from element i on. A bound method is
\* the list of its layers, outermost first, ending in the command.
RECURSIVE Reduce(_, _, _)
Reduce(array, i, decoratedMethod) ==
  IF i > Len(array)
    THEN decoratedMethod
    ELSE Reduce(array, i + 1, <<array[i]>> \o decoratedMethod)

RECURSIVE Apply(_, _, _)

\* A user decorator called without the wrapper as receiver.
DecoratorUnbound(decorator, method, key, args) ==
  LET inner == Apply(method, key, args)
  IN [inner EXCEPT !.trace =
        <<[Event("enter", decorator, args, method) EXCEPT !.self = "undefined"]>>
        \o inner.trace
        \o <<Event("exit", decorator, args, <<>>)>>]

\* A user decorator, function (method, ...args) { return method(...args); },
\* or one that returns a value of its own without calling method.
Decorator(decorator, method, key, args) ==
  LET inner == Apply(method, key, args)
  IN IF decorator \in ShortCircuits
       THEN [trace |-> <<Event("enter", decorator, args, method),
                         Event("exit", decorator, args, <<>>)>>,
             result |-> [kind |-> "value", value |-> <<decorator>>],
             then |-> FALSE]
       ELSE [inner EXCEPT !.trace = <<Event("enter", decorator, args, method)>>
                                    \o inner.trace
                                    \o <<Event("exit", decorator, args, <<>>)>>]

\* The hooks called with the call's own arguments only, no dependencies.
HookCallsParamsOnly(ev, hookFns, args) ==
  [i \in 1..Len(hookFns) |->
     Event(ev, hookFns[i], [deps |-> Falsy, params |-> args.params], <<>>)]

\* The calls of the hooks of one array, in array order.
HookCalls(ev, hookFns, args) ==
  [i \in 1..Len(hookFns) |-> Event(ev, hookFns[i], args, <<>>)]

\* A hook decorator that calls the pre hooks after the method.
HookDecoratorPreLate(method, key, args) ==
  LET pre == HookCalls("pre", hooks[key].pre, args)
      inner == Apply(method, key, args)
  IN IF inner.result.kind = "promise"
       THEN [inner EXCEPT !.trace = inner.trace \o pre, !.then = TRUE]
       ELSE [inner EXCEPT !.trace = inner.trace \o pre
                                    \o HookCalls("post", hooks[key].post, args)]

\* A hook decorator that leaves the post hooks to then() whatever the result.
HookDecoratorThenOnly(method, key, args) ==
  LET pre == HookCalls("pre", hooks[key].pre, args)
      inner == Apply(method, key, args)
  IN [inner EXCEPT !.trace = pre \o inner.trace, !.then = TRUE]

\* A hook decorator that hands the hooks args without its first element.
HookDecoratorDropsDeps(method, key, args) ==
  LET rest == [deps |-> Falsy, params |-> args.params]
      pre == HookCalls("pre", hooks[key].pre, rest)
      inner == Apply(method, key, args)
  IN IF inner.result.kind = "promise"
       THEN [inner EXCEPT !.trace = pre \o inner.trace, !.then = TRUE]
       ELSE [inner EXCEPT !.trace = pre \o inner.trace
                                    \o HookCalls("post", hooks[key].post, rest)]

\* A hook decorator that returns result.then(...), the promise of its
\* callback, which resolves to undefined.
HookDecoratorReturnsThen(method, key, args) ==
  LET pre == HookCalls("pre", hooks[key].pre, args)
      inner == Apply(method, key, args)
  IN IF inner.result.kind = "promise"
       THEN [inner EXCEPT !.trace = pre \o inner.trace, !.then = TRUE,
                          !.result.value = <<"undefined">>]
       ELSE [inner EXCEPT !.trace = pre \o inner.trace
                                    \o HookCalls("post", hooks[key].post, args)]

\* The decorator __hookDecorator(key) returns: the pre hooks, the method, then
\* the post hooks, at once or in a then() callback of a promise result.
HookDecorator(method, key, args) ==
  LET preHooks == hooks[key].pre
      postHooks == hooks[key].post
      pre == HookCalls("pre", preHooks, args)
      inner == Apply(method, key, args)
  IN IF inner.result.kind = "promise"
       THEN [inner EXCEPT !.trace = pre \o inner.trace, !.then = TRUE]
       ELSE [inner EXCEPT !.trace = pre \o inner.trace
                                    \o HookCalls("post", postHooks, args)]

\* method.apply(this, args) of a bound method.
Apply(method, key, args) ==
  IF Head(method) = "command"
    THEN CommandCall(key, args)
    ELSE IF Head(method) = "hookDecorator"
      THEN HookDecorator(Tail(method), key, args)
      ELSE Decorator(Head(method), Tail(method), key, args)

\* A decorable closure over the dependencies the definition was built with.
DecorableCallCaptured(key, params) ==
  LET array == DecoratorsArray(key)
      args == [deps |-> dependencies, params |-> params]
  IN IF Len(array) = 0
       THEN CommandCall(key, args)
       ELSE Apply(Reduce(array, 1, <<"command">>), key, args)

\* The closure __makeDecorable installs as __facade[key].
DecorableCall(key, params) ==
  LET array == DecoratorsArray(key)
      args == [deps |-> deps, params |-> params]
  IN IF Len(array) = 0
       THEN CommandCall(key, args)
       ELSE Apply(Reduce(array, 1, <<"command">>), key, args)

\* A plain closure over the dependencies the definition was built with.
PlainCallCaptured(key, params) ==
  CommandCall(key, [deps |-> dependencies, params |-> params])

\* The closure __makeFacade and unmakeDecorable install as __facade[key].
PlainCall(key, params) == CommandCall(key, [deps |-> deps, params |-> params])

\* this[key](...params), the instance method: this.__facade[key](...params).
FacadeCall(key, params) ==
  IF facade[key] = "decorable"
    THEN DecorableCall(key, params)
    ELSE PlainCall(key, params)

\* The error a function throws.
ErrorOf(who) == <<"Error", who>>

\* The events of a trace at which the function fault is called.
ThrowsAt(trace, fault) ==
  {i \in 1..Len(trace) :
     trace[i].who = fault /\ trace[i].ev \in {"fn", "enter", "pre", "post"}}

\* A throw that is caught where it happens: the call runs on to its end.
UnwindCaught(trace, fault) == trace

\* What is left of a trace when the function fault throws as soon as it is
\* called: neither the engine nor the decorators catch, so nothing runs after
\* the first call of it.
Unwind(trace, fault) ==
  LET at == ThrowsAt(trace, fault)
  IN IF at = {}
       THEN trace
       ELSE SubSeq(trace, 1, CHOOSE i \in at : \A j \in at : i <= j)

\* No facade call observed since the last API call.
NoCall ==
  [key |-> "none", params |-> <<>>, deps |-> dependencies, trace |-> <<>>,
   status |-> "none", value |-> <<>>, then |-> FALSE, live |-> FALSE,
   post |-> <<>>, touched |-> FALSE, fault |-> "none", thrown |-> "none"]

\* this[key] = this.__facade[key]: the closure installed at the time.
InstanceMethodFacade(key) ==
  [key |-> key, closure |-> facade[key], facade |-> facade[key]]

\* this[key] as the constructor assigns it: an arrow function that looks
\* this.__facade[key] up each time it is called. facade notes what
\* this.__facade[key] was when the method was read.
InstanceMethod(key) == [key |-> key, closure |-> "lookup", facade |-> facade[key]]

\* method(...params) of a function read off the instance earlier.
MethodCall(method, params) ==
  IF method.closure = "lookup"
    THEN FacadeCall(method.key, params)
    ELSE IF method.closure = "decorable"
      THEN DecorableCall(method.key, params)
      ELSE PlainCall(method.key, params)

\* No instance method kept.
NoReference == [key |-> "none", closure |-> "none", facade |-> "none"]

\* The definition of the fixture.
definitionOfFixture == [type |-> "test", fns |-> "fns"]

\* After a second new DapiWrapper() of the same class: its own registries,
\* its own copy of the dependencies the definition had when DapiMixin ran.
OtherInstance ==
  [deps |-> dependencies, decorators |-> EmptyObject, hooks |-> EmptyObject]

\* ------------------------------------------------------------- the state
\* After new DapiWrapper(): empty registries, __deps a copy of the
\* definition's dependencies, every facade entry the plain closure.
Init ==
  /\ decorators = EmptyObject
  /\ hooks = EmptyObject
  /\ decoratedFns = <<>>
  /\ facade = [key \in Keys |-> "plain"]
  /\ deps = dependencies
  /\ definitionDeps = dependencies
  /\ removers = <<>>
  /\ inflight = <<>>
  /\ lastCall = NoCall
  /\ error = "none"
  /\ definition = definitionOfFixture
  /\ wrapper = This
  /\ reference = NoReference
  /\ other = OtherInstance

\* The definitions handed to DapiMixin: type and fns present, undefined or
\* an empty string.
Definitions == [type : {"test", "undefined", ""}, fns : {"fns", "undefined"}]

\* !value of a type or fns field; the message texts are the code's but for
\* the backquotes around fns.
Not(value) == value \in {"undefined", ""}

\* The checks made dependencies first, then fns, then type.
DapiMixinErrorDependenciesFirst(def, defDeps) ==
  IF defDeps = Falsy
    THEN "TypeError: Definition must have dependencies"
    ELSE IF Not(def.fns)
      THEN "TypeError: Definition must have a dictionary (fns) of Dapi functions"
      ELSE IF Not(def.type)
        THEN "TypeError: Definition must have a type"
        ELSE "none"

\* What DapiMixin(definition, SuperClass) throws before it declares the
\* class, "none" when it goes on to declare it.
DapiMixinError(def, defDeps) ==
  IF Not(def.type)
    THEN "TypeError: Definition must have a type"
    ELSE IF Not(def.fns)
      THEN "TypeError: Definition must have a dictionary (fns) of Dapi functions"
      ELSE IF defDeps = Falsy
        THEN "TypeError: Definition must have dependencies"
        ELSE "none"

\* Before createDapi(definition): a definition, no class and no instance.
InitDefinition ==
  /\ definition \in Definitions
  /\ definitionDeps \in {dependencies, Falsy}
  /\ wrapper = "none"
  /\ decorators = EmptyObject
  /\ hooks = EmptyObject
  /\ decoratedFns = <<>>
  /\ facade = EmptyObject
  /\ deps = Falsy
  /\ removers = <<>>
  /\ inflight = <<>>
  /\ lastCall = NoCall
  /\ error = "none"
  /\ reference = NoReference
  /\ other = OtherInstance

\* createDapi(definition): new (DapiMixin(definition, SuperClass))(). DapiMixin
\* throws on a definition it rejects, else the constructor runs.
CreateDapi ==
  /\ wrapper = "none"
  /\ error = "none"
  /\ IF DapiMixinError(definition, definitionDeps) # "none"
       THEN /\ error' = DapiMixinError(definition, definitionDeps)
            /\ UNCHANGED <<decorators, hooks, decoratedFns, facade, deps,
                           wrapper>>
       ELSE /\ error' = "none"
            /\ wrapper' = This
            /\ decorators' = EmptyObject
            /\ hooks' = EmptyObject
            /\ decoratedFns' = <<>>
            /\ facade' = [key \in Keys |-> "plain"]
            /\ deps' = definitionDeps
  /\ UNCHANGED <<other, definition, definitionDeps, removers, inflight, lastCall,
                 reference>>

\* The registry fields take the values of R.
SetRegistry(R) ==
  /\ decorators' = R.decorators
  /\ hooks' = R.hooks
  /\ decoratedFns' = R.decoratedFns
  /\ facade' = R.facade

\* The kept closures after a call of a registry method: none of them is fresh
\* any more. A closure is fresh from the moment it is returned or called until
\* the next call of a registry method; used says it was called at least once.
Stale ==
  [i \in 1..Len(removers) |-> [removers[i] EXCEPT !.fresh = FALSE]]

\* The API call threw: nothing but the error is left behind.
Throws(message) ==
  /\ error' = message
  /\ lastCall' = NoCall
  /\ removers' = Stale
  /\ UNCHANGED <<other, definition, wrapper, reference,
                 decorators, hooks, decoratedFns, facade, deps, definitionDeps,
                 inflight>>

\* The hook record of a key, empty when it has none.
HookRecord(obj, key) ==
  IF HasOwn(obj, key) THEN obj[key] ELSE [post |-> <<>>, pre |-> <<>>]

\* The hooks held by the registry, over all keys and phases.
HookCount ==
  LET RECURSIVE Sum(_)
      Sum(i) == IF i > Len(fnsKeys) THEN 0
                ELSE Len(HookRecord(hooks, fnsKeys[i]).pre)
                     + Len(HookRecord(hooks, fnsKeys[i]).post) + Sum(i + 1)
  IN Sum(1)

\* The pending calls of key after its hook record changed from hooks to
\* newHooks: the postHooks array a then() callback holds is the array of the
\* record that existed at the call; once that record is deleted the callback
\* is left with the detached, emptied array.
Rebind(newHooks, key) ==
  [i \in 1..Len(inflight) |->
     IF inflight[i].key = key
       THEN [inflight[i] EXCEPT
               !.live = @ /\ HasOwn(newHooks, key),
               !.touched = @ \/ HookRecord(newHooks, key) # HookRecord(hooks, key)]
       ELSE inflight[i]]

\* The decorators held by the registry, over all keys.
DecoratorCount ==
  LET RECURSIVE Sum(_)
      Sum(i) == IF i > Len(fnsKeys) THEN 0
                ELSE (IF HasOwn(decorators, fnsKeys[i])
                        THEN Len(decorators[fnsKeys[i]]) ELSE 0) + Sum(i + 1)
  IN Sum(1)

\* The closures kept after a call that returned one: keep says whether the
\* caller keeps it.
Kept(keep, closure) == IF keep THEN Append(Stale, closure) ELSE Stale

\* The registration a call makes whose closure is kept or dropped.
RegOf(keep) == IF keep THEN Len(removers) + 1 ELSE 0

\* --------------------------------------------------------------- actions
\* addDecorator(key, decorator), with at most max decorators held.
AddDecorator(key, decorator, keep, max) ==
  IF AddDecoratorError(key) # "none"
    THEN Throws(AddDecoratorError(key))
    ELSE /\ DecoratorCount < max
         /\ keep => Len(removers) < MaxRemovers
         /\ SetRegistry(AddDecoratorTo(Registry, key, decorator, RegOf(keep)))
         /\ removers' = Kept(keep, [kind |-> "decorator", key |-> key,
                                    fn |-> decorator, used |-> FALSE,
                                    fresh |-> TRUE])
         /\ lastCall' = NoCall
         /\ error' = "none"
         /\ UNCHANGED <<other, definition, wrapper, reference,
                        deps, definitionDeps, inflight>>

\* decorateAll(decorator), with at most max decorators held.
DecorateAll(decorator, keep, max) ==
  /\ DecoratorCount + Len(fnsKeys) <= max
  /\ keep => Len(removers) < MaxRemovers
  /\ SetRegistry(DecorateAllFrom(Registry, decorator, RegOf(keep), 1))
  /\ removers' = Kept(keep, [kind |-> "all", key |-> "*",
                             fn |-> decorator, used |-> FALSE,
                             fresh |-> TRUE])
  /\ lastCall' = NoCall
  /\ error' = "none"
  /\ UNCHANGED <<other, definition, wrapper, reference,
                 deps, definitionDeps, inflight>>

\* removeDecorator(key, decorator)
RemoveDecorator(key, decorator) ==
  /\ SetRegistry(RemoveDecoratorFrom(Registry, key, decorator))
  /\ removers' = Stale
  /\ lastCall' = NoCall
  /\ error' = "none"
  /\ UNCHANGED <<other, definition, wrapper, reference,
                 deps, definitionDeps, inflight>>

\* What calling the closure removers[i] does to the registry.
RemoverResult(R, i) ==
  IF removers[i].kind = "all"
    THEN RemoveAllFrom(R, removers[i].fn, 1)
    ELSE IF removers[i].kind \in HookTypes
      THEN RemoveHookFrom(R, removers[i].kind, removers[i].key, removers[i].fn)
      ELSE RemoveDecoratorFrom(R, removers[i].key, removers[i].fn)

\* What calling the closure removers[i] throws: the closure of addHook calls
\* removeHook, the others removeDecorator, which throws nothing.
RemoverError(R, i) ==
  IF removers[i].kind \in HookTypes
    THEN RemoveHookError(R, removers[i].key)
    ELSE "none"

\* A call of a kept closure that addDecorator, decorateAll or addHook returned.
InvokeRemover(i) ==
  IF RemoverError(Registry, i) # "none"
    THEN Throws(RemoverError(Registry, i))
    ELSE LET R == RemoverResult(Registry, i)
         IN /\ SetRegistry(R)
            /\ inflight' = IF removers[i].kind \in HookTypes
                             THEN Rebind(R.hooks, removers[i].key)
                             ELSE inflight
            /\ removers' = [Stale EXCEPT ![i].used = TRUE, ![i].fresh = TRUE]
            /\ lastCall' = NoCall
            /\ error' = "none"
            /\ UNCHANGED <<other, definition, wrapper, reference,
                           deps, definitionDeps>>

\* addHook(hookType, key, hook), addPreHook(key, hook), addPostHook(key, hook),
\* with at most max hooks held.
AddHook(hookType, key, hook, keep, max) ==
  IF AddHookError(key) # "none"
    THEN Throws(AddHookError(key))
    ELSE LET R == AddHookTo(Registry, hookType, key, hook)
         IN /\ HookCount < max
            /\ keep => Len(removers) < MaxRemovers
            /\ SetRegistry(R)
            /\ inflight' = Rebind(R.hooks, key)
            /\ removers' = Kept(keep, [kind |-> hookType, key |-> key,
                                       fn |-> hook, used |-> FALSE,
                                       fresh |-> TRUE])
            /\ lastCall' = NoCall
            /\ error' = "none"
            /\ UNCHANGED <<other, definition, wrapper, reference,
                           deps, definitionDeps>>

\* removeHook(hookType, key, hook), removePreHook(key, hook),
\* removePostHook(key, hook), and the closure addHook returned for them.
RemoveHook(hookType, key, hook) ==
  IF RemoveHookError(Registry, key) # "none"
    THEN Throws(RemoveHookError(Registry, key))
    ELSE LET R == RemoveHookFrom(Registry, hookType, key, hook)
         IN /\ SetRegistry(R)
            /\ inflight' = Rebind(R.hooks, key)
            /\ removers' = Stale
            /\ lastCall' = NoCall
            /\ error' = "none"
            /\ UNCHANGED <<other, definition, wrapper, reference,
                           deps, definitionDeps>>

\* The methods that read the instance and return: getDependencies returns
\* this.__deps, getDefinition this.__definition, toJSON and toString a string
\* made of the definition.
Getters == {"getDependencies", "getDefinition", "toJSON", "toString"}

\* instance[method]() of a getter.
Get(method) ==
  /\ method \in Getters
  /\ lastCall' = NoCall
  /\ error' = "none"
  /\ UNCHANGED <<other, definition, wrapper, reference, decorators, hooks,
                 decoratedFns, facade, deps, definitionDeps, removers,
                 inflight>>

\* setDependencies(newDeps) on the second instance: its __deps, and the
\* dependencies of the definition, the object both instances hold.
OtherSetDependencies(newDeps) ==
  IF newDeps = Falsy
    THEN Throws("TypeError: Dependencies must be defined")
    ELSE /\ other' = [other EXCEPT !.deps = newDeps]
         /\ definitionDeps' = newDeps
         /\ lastCall' = NoCall
         /\ error' = "none"
         /\ UNCHANGED <<definition, wrapper, reference, decorators, hooks,
                        decoratedFns, facade, deps, removers, inflight>>

\* addHook(hookType, key, hook) on the second instance.
OtherAddHook(hookType, key, hook, max) ==
  /\ key \in Keys
  /\ Len(HookRecord(other.hooks, key).pre)
       + Len(HookRecord(other.hooks, key).post) < max
  /\ other' = [other EXCEPT !.hooks =
                 AddHookTo([Registry EXCEPT !.hooks = other.hooks],
                           hookType, key, hook).hooks]
  /\ lastCall' = NoCall
  /\ error' = "none"
  /\ UNCHANGED <<definition, wrapper, reference, decorators, hooks,
                 decoratedFns, facade, deps, definitionDeps, removers,
                 inflight>>

\* setDependencies that replaces this.__deps only.
SetDependenciesDepsOnly(newDeps) ==
  IF newDeps = Falsy
    THEN Throws("TypeError: Dependencies must be defined")
    ELSE /\ deps' = newDeps
         /\ lastCall' = NoCall
         /\ error' = "none"
         /\ UNCHANGED <<other, definition, wrapper, reference,
                        decorators, hooks, decoratedFns, facade, removers,
                        inflight, definitionDeps>>

\* setDependencies without the falsy test.
SetDependenciesUnchecked(newDeps) ==
  /\ deps' = newDeps
  /\ definitionDeps' = newDeps
  /\ lastCall' = NoCall
  /\ error' = "none"
  /\ UNCHANGED <<other, definition, wrapper, reference,
                 decorators, hooks, decoratedFns, facade, removers, inflight>>

\* setDependencies(newDeps)
SetDependencies(newDeps) ==
  IF newDeps = Falsy
    THEN Throws("TypeError: Dependencies must be defined")
    ELSE /\ deps' = newDeps
         /\ definitionDeps' = newDeps
         /\ lastCall' = NoCall
         /\ error' = "none"
         /\ UNCHANGED <<other, definition, wrapper, reference,
                        decorators, hooks, decoratedFns, facade, removers,
                        inflight>>

\* {...newDeps, ...this.__deps}: the current value wins.
MergeCurrentWins(current, partial) == current

\* {...this.__deps, ...newDeps}
Merge(current, partial) ==
  [field \in DOMAIN current |->
     IF partial[field] = "-" THEN current[field] ELSE partial[field]]

\* updateDependencies(newDeps)
UpdateDependencies(newDeps) ==
  IF newDeps = Falsy
    THEN Throws("TypeError: Dependencies must be defined")
    ELSE SetDependencies(Merge(deps, newDeps))

\* What is kept of a pending call: its arguments and its then() callback.
Pending(c) ==
  [key |-> c.key, params |-> c.params, deps |-> c.deps, then |-> c.then,
   live |-> c.live, post |-> c.post, touched |-> c.touched, fault |-> c.fault]

\* The call record of a facade call that has just returned to its caller.
CallRecord(key, params) ==
  LET r == FacadeCall(key, params)
  IN [key |-> key, params |-> params, deps |-> deps, trace |-> r.trace,
      status |-> IF r.result.kind = "promise" THEN "pending" ELSE "returned",
      value |-> r.result.value, then |-> r.then, live |-> r.then,
      post |-> <<>>, touched |-> FALSE, fault |-> "none", thrown |-> "none"]

\* The call record of a facade call during which the function fault throws
\* when it is called: the throw unwinds the decorators and reaches the caller.
CallRecordWithFault(key, params, fault) ==
  LET c == CallRecord(key, params)
  IN IF ThrowsAt(c.trace, fault) = {}
       THEN [c EXCEPT !.fault = fault]
       ELSE [c EXCEPT !.trace = Unwind(c.trace, fault), !.status = "threw",
                      !.value = ErrorOf(fault), !.then = FALSE,
                      !.live = FALSE, !.fault = fault, !.thrown = fault]

\* A facade call that copies the dependencies of the definition anew.
CallCopyingDependencies(key, params) ==
  LET c == CallRecord(key, params)
  IN /\ c.status = "pending" => Len(inflight) < MaxInflight
     /\ lastCall' = c
     /\ inflight' = IF c.status = "pending"
                      THEN Append(inflight, Pending(c)) ELSE inflight
     /\ error' = "none"
     /\ deps' = dependencies
     /\ UNCHANGED <<other, definition, wrapper, reference,
                    decorators, hooks, decoratedFns, facade,
                    definitionDeps, removers>>

\* instance[key](...params): the synchronous part of a facade call.
Call(key, params) ==
  LET c == CallRecord(key, params)
  IN /\ c.status = "pending" => Len(inflight) < MaxInflight
     /\ lastCall' = c
     /\ inflight' = IF c.status = "pending"
                      THEN Append(inflight, Pending(c)) ELSE inflight
     /\ error' = "none"
     /\ UNCHANGED <<other, definition, wrapper, reference,
                    decorators, hooks, decoratedFns, facade, deps,
                    definitionDeps, removers>>

\* The same call, its record noting the post hooks the key has at the
\* invocation, to tell later what became of them.
CallNotingHooks(key, params) ==
  LET c == [CallRecord(key, params) EXCEPT !.post = HookRecord(hooks, key).post]
  IN /\ c.status = "pending" => Len(inflight) < MaxInflight
     /\ lastCall' = c
     /\ inflight' = IF c.status = "pending"
                      THEN Append(inflight, Pending(c)) ELSE inflight
     /\ error' = "none"
     /\ UNCHANGED <<other, definition, wrapper, reference,
                    decorators, hooks, decoratedFns, facade, deps,
                    definitionDeps, removers>>

\* const {[key]: method} = instance: the instance method is read and kept.
TakeReference(key) ==
  /\ reference' = InstanceMethod(key)
  /\ UNCHANGED <<other, decorators, hooks, decoratedFns, facade, deps, definitionDeps,
                 removers, inflight, lastCall, error, definition, wrapper>>

\* The call record of a call of the kept method.
ReferenceCallRecord(params) ==
  LET r == MethodCall(reference, params)
  IN [key |-> reference.key, params |-> params, deps |-> deps,
      trace |-> r.trace,
      status |-> IF r.result.kind = "promise" THEN "pending" ELSE "returned",
      value |-> r.result.value, then |-> r.then, live |-> r.then,
      post |-> <<>>, touched |-> FALSE, fault |-> "none", thrown |-> "none"]

\* method(...params): the kept method is called.
CallReference(params) ==
  LET c == ReferenceCallRecord(params)
  IN /\ reference # NoReference
     /\ c.status = "pending" => Len(inflight) < MaxInflight
     /\ lastCall' = c
     /\ inflight' = IF c.status = "pending"
                      THEN Append(inflight, Pending(c)) ELSE inflight
     /\ error' = "none"
     /\ UNCHANGED <<other, decorators, hooks, decoratedFns, facade, deps,
                    definitionDeps, removers, definition, wrapper, reference>>

\* for (const hook of array) hook.call(this, ...args), from index i on, over
\* the live array this.hooks[key][hookType] of the registry R: a hook that
\* removes itself splices the array under the iterator, whose index goes on
\* to i + 1 all the same. Gives the registry left and the hook calls made.
RECURSIVE IterateHooks(_, _, _, _, _)
IterateHooks(R, hookType, key, args, i) ==
  LET array == HookRecord(R.hooks, key)[hookType]
  IN IF i > Len(array)
       THEN [R |-> R, trace |-> <<>>]
       ELSE LET hook == array[i]
                left == IF hook \in SelfRemovers
                          THEN RemoveHookFrom(R, hookType, key, hook)
                          ELSE R
                rest == IterateHooks(left, hookType, key, args, i + 1)
            IN [R |-> rest.R,
                trace |-> <<Event(hookType, hook, args, <<>>)>> \o rest.trace]

\* The hook decorator around the synchronous command of a key, its hooks free
\* to call removeHook: the pre hooks, the command, the post hooks, each loop
\* over the array the decorator took before the first hook ran.
HookLoop(R, key, args) ==
  LET pre == IterateHooks(R, "pre", key, args, 1)
      fn == CommandCall(key, args)
      post == IterateHooks(pre.R, "post", key, args, 1)
  IN [R |-> post.R,
      trace |-> pre.trace \o fn.trace \o post.trace,
      result |-> fn.result]

\* instance[key](...params) of a synchronous key that has hooks and no
\* decorator, some of the hooks removing themselves as they run.
CallWithSelfRemovers(key, params) ==
  LET r == HookLoop(Registry, key, [deps |-> deps, params |-> params])
  IN /\ fns[key] = "sync"
     /\ HasOwn(hooks, key)
     /\ ~HasOwn(decorators, key)
     /\ SetRegistry(r.R)
     /\ inflight' = Rebind(r.R.hooks, key)
     /\ removers' = IF r.R = Registry THEN removers ELSE Stale
     /\ lastCall' = [NoCall EXCEPT !.key = key, !.params = params,
                                   !.deps = deps, !.trace = r.trace,
                                   !.status = "returned",
                                   !.value = r.result.value]
     /\ error' = "none"
     /\ UNCHANGED <<other, definition, wrapper, reference, deps, definitionDeps>>

\* instance[key](...params) when the function fault throws on being called.
CallWithFault(key, params, fault) ==
  LET c == CallRecordWithFault(key, params, fault)
  IN /\ c.status = "pending" => Len(inflight) < MaxInflight
     /\ lastCall' = c
     /\ inflight' = IF c.status = "pending"
                      THEN Append(inflight, Pending(c)) ELSE inflight
     /\ error' = "none"
     /\ UNCHANGED <<other, definition, wrapper, reference,
                    decorators, hooks, decoratedFns, facade, deps,
                    definitionDeps, removers>>

\* A then() callback that reads this.__deps when it runs.
ThenCallbackCurrentDeps(c) ==
  LET postHooks == IF c.then /\ c.live THEN hooks[c.key].post ELSE <<>>
  IN HookCalls("post", postHooks, [deps |-> deps, params |-> c.params])

\* The then() callback of the hook decorator of a pending call: the post
\* hooks of the array it holds, with the arguments of the call.
ThenCallback(c) ==
  LET postHooks == IF c.then /\ c.live THEN hooks[c.key].post ELSE <<>>
  IN HookCalls("post", postHooks, [deps |-> c.deps, params |-> c.params])

\* The reactions on the promise of a pending call, in the order they were
\* registered: the hook decorator calls result.then() during the call, the
\* caller awaits the promise once the call has returned it.
Reactions(c) == IF c.then THEN <<"then", "await">> ELSE <<"await">>

\* What one reaction runs when the promise settles as status: the then()
\* callback on fulfilment only, the caller's continuation either way.
RunReaction(reaction, c, status) ==
  IF reaction = "then"
    THEN IF status = "resolved" THEN ThenCallback(c) ELSE <<>>
    ELSE <<Event("await", "caller", [deps |-> c.deps, params |-> c.params], <<>>)>>

\* The promise jobs of a settlement: the reactions from the i-th on, run in
\* the order they were registered.
RECURSIVE PromiseJobs(_, _, _, _)
PromiseJobs(reactions, i, c, status) ==
  IF i > Len(reactions)
    THEN <<>>
    ELSE RunReaction(reactions[i], c, status)
           \o PromiseJobs(reactions, i + 1, c, status)

\* The callback registered with finally() instead: it runs either way.
SettleCallbacksFinally(c, status) == ThenCallback(c)

\* result.then(callback) of a pending call with a then() callback: what the
\* wrapper runs when the promise settles as status.
SettleCallbacks(c, status) ==
  SelectSeq(PromiseJobs(Reactions(c), 1, c, status), LAMBDA e : e.ev # "await")

\* The call record of the settlement of a pending call.
Settled(c, status, trace) ==
  [key |-> c.key, params |-> c.params, deps |-> c.deps,
   trace |-> Unwind(trace, c.fault),
   status |-> status, value |-> c.params, then |-> c.then, live |-> c.live,
   post |-> <<>>, touched |-> c.touched, fault |-> c.fault,
   thrown |-> IF ThrowsAt(trace, c.fault) = {} THEN "none" ELSE c.fault]

\* The promise of the pending call inflight[i] resolves.
Resolve(i) ==
  /\ lastCall' = Settled(inflight[i], "resolved",
                      SettleCallbacks(inflight[i], "resolved"))
  /\ inflight' = Splice(inflight, i - 1)
  /\ error' = "none"
  /\ UNCHANGED <<other, definition, wrapper, reference,
                 decorators, hooks, decoratedFns, facade, deps,
                 definitionDeps, removers>>

\* The promise of the pending call inflight[i] rejects.
Reject(i) ==
  /\ lastCall' = Settled(inflight[i], "rejected",
                      SettleCallbacks(inflight[i], "rejected"))
  /\ inflight' = Splice(inflight, i - 1)
  /\ error' = "none"
  /\ UNCHANGED <<other, definition, wrapper, reference,
                 decorators, hooks, decoratedFns, facade, deps,
                 definitionDeps, removers>>

\* Facade calls, with the registries and the dependencies changing in between;
\* the closures addDecorator returns are dropped.
Next ==
  \/ \E key \in Keys, decorator \in DecoratorFns :
       AddDecorator(key, decorator, FALSE, MaxDecorators)
  \/ \E decorator \in DecoratorFns : DecorateAll(decorator, FALSE, MaxDecorators)
  \/ \E key \in Keys, decorator \in DecoratorFns : RemoveDecorator(key, decorator)
  \/ \E hookType \in HookTypes, key \in Keys, hook \in HookFns :
       AddHook(hookType, key, hook, FALSE, MaxHooks)
  \/ \E hookType \in HookTypes, key \in Keys, hook \in HookFns :
       RemoveHook(hookType, key, hook)
  \/ \E newDeps \in DepVals \cup {Falsy} : SetDependencies(newDeps)
  \/ \E newDeps \in Partials \cup {Falsy} : UpdateDependencies(newDeps)
  \/ \E key \in Keys, params \in Params : Call(key, params)
  \/ \E i \in 1..Len(inflight) : Resolve(i)
  \/ \E i \in 1..Len(inflight) : Reject(i)

Spec == Init /\ [][Next]_vars

\* The registries worked on through every registration and removal method and
\* through kept remover closures.
NextRegistry ==
  \/ \E key \in Keys \cup OtherKeys, decorator \in DecoratorFns, keep \in BOOLEAN :
       AddDecorator(key, decorator, keep, MaxRegistryDecorators)
  \/ \E decorator \in DecoratorFns, keep \in BOOLEAN :
       DecorateAll(decorator, keep, MaxRegistryDecorators)
  \/ \E key \in Keys, decorator \in DecoratorFns : RemoveDecorator(key, decorator)
  \/ \E i \in 1..Len(removers) : InvokeRemover(i)
  \/ \E hookType \in HookTypes, key \in Keys \cup OtherKeys, hook \in HookFns :
       AddHook(hookType, key, hook, FALSE, MaxRegistryHooks)
  \/ \E hookType \in HookTypes, key \in Keys, hook \in HookFns :
       RemoveHook(hookType, key, hook)

SpecRegistry == Init /\ [][NextRegistry]_vars

\* Facade calls that stay pending while the hooks of their key change.
NextPending ==
  \/ \E hookType \in HookTypes, key \in Keys, hook \in HookFns :
       AddHook(hookType, key, hook, FALSE, MaxHooks)
  \/ \E hookType \in HookTypes, key \in Keys, hook \in HookFns :
       RemoveHook(hookType, key, hook)
  \/ \E key \in Keys, params \in Params : CallNotingHooks(key, params)
  \/ \E i \in 1..Len(inflight) : Resolve(i)
  \/ \E i \in 1..Len(inflight) : Reject(i)

SpecPending == Init /\ [][NextPending]_vars

\* An instance method read off the instance and called while decorators and
\* hooks come and go.
NextReference ==
  \/ \E key \in Keys : TakeReference(key)
  \/ \E key \in Keys, decorator \in DecoratorFns :
       AddDecorator(key, decorator, FALSE, MaxReferenceDecorators)
  \/ \E key \in Keys, decorator \in DecoratorFns : RemoveDecorator(key, decorator)
  \/ \E hookType \in HookTypes, key \in Keys, hook \in HookFns :
       AddHook(hookType, key, hook, FALSE, MaxReferenceHooks)
  \/ \E hookType \in HookTypes, key \in Keys, hook \in HookFns :
       RemoveHook(hookType, key, hook)
  \/ \E params \in Params : CallReference(params)
  \/ \E i \in 1..Len(inflight) : Resolve(i)
  \/ \E i \in 1..Len(inflight) : Reject(i)

SpecReference == Init /\ [][NextReference]_vars

\* createDapi on a definition, then the instance, if there is one, in use.
NextDefinition ==
  \/ CreateDapi
  \/ /\ wrapper = This
     /\ \E key \in Keys, decorator \in DecoratorFns :
          AddDecorator(key, decorator, FALSE, MaxDefinitionDecorators)
  \/ /\ wrapper = This
     /\ \E hookType \in HookTypes, key \in Keys, hook \in HookFns :
          AddHook(hookType, key, hook, FALSE, MaxDefinitionHooks)
  \/ /\ wrapper = This
     /\ \E key \in {"command1"}, params \in Params : Call(key, params)

SpecDefinition == InitDefinition /\ [][NextDefinition]_vars

\* Facade calls of keys decorated with a decorator that does not call next.
NextShortCircuit ==
  \/ \E key \in Keys, decorator \in DecoratorFns \cup ShortCircuits :
       AddDecorator(key, decorator, FALSE, MaxShortCircuitDecorators)
  \/ \E hookType \in HookTypes, key \in Keys, hook \in HookFns :
       AddHook(hookType, key, hook, FALSE, MaxShortCircuitHooks)
  \/ \E key \in Keys, params \in Params : Call(key, params)
  \/ \E i \in 1..Len(inflight) : Resolve(i)
  \/ \E i \in 1..Len(inflight) : Reject(i)

SpecShortCircuit == Init /\ [][NextShortCircuit]_vars

\* The hook registry worked on through addHook, removeHook and kept closures
\* of addHook.
NextHookRemovers ==
  \/ \E hookType \in HookTypes, key \in Keys, hook \in HookFns, keep \in BOOLEAN :
       AddHook(hookType, key, hook, keep, MaxHookRemoverHooks)
  \/ \E hookType \in HookTypes, key \in Keys, hook \in HookFns :
       RemoveHook(hookType, key, hook)
  \/ \E i \in 1..Len(removers) : InvokeRemover(i)

SpecHookRemovers == Init /\ [][NextHookRemovers]_vars

\* Every method of the instance, the closures the registrations returned and
\* the facade calls, with few decorators and hooks.
NextFrame ==
  \/ \E key \in Keys, decorator \in {"decorator1"}, keep \in BOOLEAN :
       AddDecorator(key, decorator, keep, MaxFrameDecorators)
  \/ \E decorator \in {"decorator1"}, keep \in BOOLEAN :
       DecorateAll(decorator, keep, MaxFrameDecorators)
  \/ \E key \in Keys, decorator \in {"decorator1"} : RemoveDecorator(key, decorator)
  \/ \E hookType \in HookTypes, key \in Keys, hook \in {"hook1"}, keep \in BOOLEAN :
       AddHook(hookType, key, hook, keep, MaxFrameHooks)
  \/ \E hookType \in HookTypes, key \in Keys, hook \in {"hook1"} :
       RemoveHook(hookType, key, hook)
  \/ \E i \in 1..Len(removers) : InvokeRemover(i)
  \/ \E newDeps \in DepVals \cup {Falsy} : SetDependencies(newDeps)
  \/ \E newDeps \in Partials \cup {Falsy} : UpdateDependencies(newDeps)
  \/ \E key \in Keys, params \in Params : Call(key, params)
  \/ \E i \in 1..Len(inflight) : Resolve(i)
  \/ \E i \in 1..Len(inflight) : Reject(i)
  \/ \E method \in Getters : Get(method)

SpecFrame == Init /\ [][NextFrame]_vars

\* Facade calls of a key whose hooks may remove themselves as they run.
NextSelfRemovers ==
  \/ \E hookType \in HookTypes, key \in Keys, hook \in {"hook1"} \cup SelfRemovers :
       AddHook(hookType, key, hook, FALSE, MaxSelfRemoverHooks)
  \/ \E hookType \in HookTypes, key \in Keys, hook \in {"hook1"} \cup SelfRemovers :
       RemoveHook(hookType, key, hook)
  \/ \E key \in Keys, params \in Params : CallWithSelfRemovers(key, params)

SpecSelfRemovers == Init /\ [][NextSelfRemovers]_vars

\* The registrations and removals made key by key, and the closures they
\* returned.
NextLocal ==
  \/ \E key \in Keys, decorator \in {"decorator1"}, keep \in BOOLEAN :
       AddDecorator(key, decorator, keep, MaxLocalDecorators)
  \/ \E key \in Keys, decorator \in {"decorator1"} : RemoveDecorator(key, decorator)
  \/ \E hookType \in HookTypes, key \in Keys, hook \in {"hook1"}, keep \in BOOLEAN :
       AddHook(hookType, key, hook, keep, MaxLocalHooks)
  \/ \E hookType \in HookTypes, key \in Keys, hook \in {"hook1"} :
       RemoveHook(hookType, key, hook)
  \/ \E i \in 1..Len(removers) : InvokeRemover(i)

SpecLocal == Init /\ [][NextLocal]_vars

\* Two instances of one class, each with its dependencies set and its
\* registries worked on.
NextInstances ==
  \/ \E key \in Keys, decorator \in {"decorator1"} :
       AddDecorator(key, decorator, FALSE, MaxInstanceDecorators)
  \/ \E hookType \in HookTypes, key \in Keys, hook \in {"hook1"} :
       AddHook(hookType, key, hook, FALSE, MaxInstanceHooks)
  \/ \E newDeps \in DepVals \cup {Falsy} : SetDependencies(newDeps)
  \/ \E newDeps \in Partials \cup {Falsy} : UpdateDependencies(newDeps)
  \/ \E key \in Keys, params \in Params : Call(key, params)
  \/ \E i \in 1..Len(inflight) : Resolve(i)
  \/ \E newDeps \in DepVals \cup {Falsy} : OtherSetDependencies(newDeps)
  \/ \E hookType \in HookTypes, key \in Keys, hook \in {"hook1"} :
       OtherAddHook(hookType, key, hook, MaxInstanceHooks)

SpecInstances == Init /\ [][NextInstances]_vars

\* Functions that throw when called: the synchronous command, a decorator, a
\* hook. An async command that throws is a promise that rejects.
Faults == {"command1", "decorator1", "hook1"}

\* Facade calls during which one of the functions throws.
NextFaults ==
  \/ \E key \in Keys, decorator \in DecoratorFns :
       AddDecorator(key, decorator, FALSE, MaxFaultDecorators)
  \/ \E hookType \in HookTypes, key \in Keys, hook \in HookFns :
       AddHook(hookType, key, hook, FALSE, MaxFaultHooks)
  \/ \E key \in Keys, params \in Params, fault \in Faults \cup {"none"} :
       CallWithFault(key, params, fault)
  \/ \E i \in 1..Len(inflight) : Resolve(i)
  \/ \E i \in 1..Len(inflight) : Reject(i)

SpecFaults == Init /\ [][NextFaults]_vars

\* ------------------------------------------------------------ the claims
\* lastCall is a facade call that has just returned to its caller: the
\* registries and the dependencies are still what the call saw.
JustCalled == lastCall.status \in {"returned", "pending"}

\* The functions called by the events of kind ev of a trace, in order.
Called(trace, ev) ==
  LET sel == SelectSeq(trace, LAMBDA e : e.ev = ev)
  IN [i \in 1..Len(sel) |-> sel[i].who]

\* The decorator functions registered on a key, in registration order.
DecoratorsOf(key) ==
  IF HasOwn(decorators, key) THEN FnsOf(decorators[key]) ELSE <<>>

\* The bound method under the user decorators of a key: the hook decorator,
\* if the key has hooks, around the command.
Innermost(key) ==
  IF HasOwn(hooks, key) THEN <<"hookDecorator", "command">> ELSE <<"command">>

\* array.reverse()
Reverse(array) == [i \in 1..Len(array) |-> array[Len(array) + 1 - i]]

\* C1: a facade call of a key that has no decorators and no hooks invokes
\* fns[key] exactly once, with the wrapper as receiver and the arguments
\* (current dependencies, ...args), and returns that function's result.
C1_PlainCallInvokesFn ==
  (JustCalled /\ DecoratorsOf(lastCall.key) = <<>>
              /\ HookRecord(hooks, lastCall.key) = [post |-> <<>>, pre |-> <<>>])
    => /\ lastCall.trace = <<[ev |-> "fn", who |-> lastCall.key, self |-> This,
                              deps |-> deps, params |-> lastCall.params,
                              next |-> <<>>]>>
       /\ lastCall.value = lastCall.params
       /\ lastCall.status = IF fns[lastCall.key] = "async" THEN "pending"
                            ELSE "returned"

\* C1 witness: an undecorated key called after the dependencies were replaced,
\* while the other key is decorated.
C1_Witness ==
  /\ JustCalled /\ lastCall.key = "command1"
  /\ ~HasOwn(decorators, "command1") /\ ~HasOwn(hooks, "command1")
  /\ facade["command3"] = "decorable"
  /\ deps # dependencies

\* C2 as claimed: with N >= 2 decorators on the key, the first registered is
\* entered first and returns last, and its next is d2, ..., dN, the hook
\* decorator (if any), the raw function.
C2_FirstRegisteredOutermost ==
  (JustCalled /\ Len(DecoratorsOf(lastCall.key)) >= 2)
    => LET ds == DecoratorsOf(lastCall.key)
           t == lastCall.trace
       IN /\ t[1].ev = "enter" /\ t[1].who = ds[1]
          /\ t[1].next = Tail(ds) \o Innermost(lastCall.key)
          /\ t[Len(t)].ev = "exit" /\ t[Len(t)].who = ds[1]

\* C2 as amended: with N >= 2 decorators on the key, the last registered is
\* the outermost: it is entered first and returns last, and its next is
\* d(N-1), ..., d1, the hook decorator (if any), the raw function; the
\* decorators are entered in the reverse of the registration order and return
\* in registration order.
C2_LastRegisteredOutermost ==
  (JustCalled /\ Len(DecoratorsOf(lastCall.key)) >= 2)
    => LET ds == DecoratorsOf(lastCall.key)
           N == Len(ds)
           t == lastCall.trace
       IN /\ t[1].ev = "enter" /\ t[1].who = ds[N]
          /\ t[1].next = Reverse(SubSeq(ds, 1, N - 1)) \o Innermost(lastCall.key)
          /\ t[Len(t)].ev = "exit" /\ t[Len(t)].who = ds[N]
          /\ Called(t, "enter") = Reverse(ds)
          /\ Called(t, "exit") = ds

\* C2 witness: a call of a key with two different decorators and a hook.
C2_Witness ==
  /\ JustCalled
  /\ DecoratorsOf(lastCall.key) = <<"decorator1", "decorator2">>
  /\ HasOwn(hooks, lastCall.key)

\* C3: on a key with user decorators and hooks, every user decorator is
\* entered before any pre hook, the pre hooks run right before the raw
\* function, and for a synchronous key every post hook runs right after it,
\* before any user decorator returns.
C3_HookDecoratorInnermost ==
  (JustCalled /\ HasOwn(decorators, lastCall.key) /\ HasOwn(hooks, lastCall.key))
    => LET key == lastCall.key
           t == lastCall.trace
           n == Len(decorators[key])
           pre == Len(hooks[key].pre)
           post == IF fns[key] = "sync" THEN Len(hooks[key].post) ELSE 0
       IN /\ Len(t) = n + pre + 1 + post + n
          /\ \A i \in 1..n : t[i].ev = "enter"
          /\ \A i \in 1..pre : t[n + i].ev = "pre"
          /\ t[n + pre + 1].ev = "fn"
          /\ \A i \in 1..post : t[n + pre + 1 + i].ev = "post"
          /\ \A i \in 1..n : t[n + pre + 1 + post + i].ev = "exit"

\* C3 witness: a synchronous key with a decorator, a pre hook and a post hook
\* is called.
C3_Witness ==
  /\ lastCall.status = "returned"
  /\ HasOwn(decorators, lastCall.key) /\ HasOwn(hooks, lastCall.key)
  /\ Len(hooks[lastCall.key].pre) = 1 /\ Len(hooks[lastCall.key].post) = 1

\* C5: on a call of a key that has pre hooks, every pre hook registered for
\* the key is called once, in registration order, within the call and before
\* the underlying function, which is called once.
C5_PreHooksBeforeFn ==
  (JustCalled /\ Len(HookRecord(hooks, lastCall.key).pre) > 0)
    => LET t == lastCall.trace
       IN /\ Called(t, "pre") = hooks[lastCall.key].pre
          /\ Called(t, "fn") = <<lastCall.key>>
          /\ \A i, j \in 1..Len(t) :
               (t[i].ev = "pre" /\ t[j].ev = "fn") => i < j

\* C5 witness: a call of a key with two different pre hooks under a decorator.
C5_Witness ==
  /\ JustCalled
  /\ HasOwn(hooks, lastCall.key)
  /\ hooks[lastCall.key].pre = <<"hook2", "hook1">>
  /\ HasOwn(decorators, lastCall.key)

\* C6: on a call of a synchronous key that has post hooks, every post hook
\* registered for the key is called once, in registration order, after the
\* underlying function was called once and before the call returns.
C6_PostHooksAfterFn ==
  (JustCalled /\ fns[lastCall.key] = "sync"
              /\ Len(HookRecord(hooks, lastCall.key).post) > 0)
    => LET t == lastCall.trace
       IN /\ lastCall.status = "returned"
          /\ Called(t, "post") = hooks[lastCall.key].post
          /\ Called(t, "fn") = <<lastCall.key>>
          /\ \A i, j \in 1..Len(t) :
               (t[i].ev = "fn" /\ t[j].ev = "post") => i < j

\* C6 witness: a call of the synchronous key with two different post hooks.
C6_Witness ==
  /\ lastCall.status = "returned"
  /\ HasOwn(hooks, lastCall.key)
  /\ hooks[lastCall.key].post = <<"hook2", "hook1">>

\* C7: on a key whose function returns a pending promise no post hook runs
\* before the promise settles; when it rejects no post hook runs for the call
\* and the caller gets the rejection; when it resolves the post hooks run
\* (those of the key, in order, when its hooks were not changed meanwhile).
C7_AsyncPostHooks ==
  /\ lastCall.status = "pending"
       => /\ Called(lastCall.trace, "post") = <<>>
          /\ Called(lastCall.trace, "pre") = HookRecord(hooks, lastCall.key).pre
  /\ lastCall.status = "rejected" => lastCall.trace = <<>>
  /\ (lastCall.status = "resolved" /\ ~lastCall.touched)
       => Called(lastCall.trace, "post") = HookRecord(hooks, lastCall.key).post

\* C7 witness: the promise of a call made with a post hook registered rejects.
C7_Witness ==
  /\ lastCall.status = "rejected"
  /\ ~lastCall.touched
  /\ Len(HookRecord(hooks, lastCall.key).post) > 0

\* The decorator functions an object of decorator lists holds for a key.
FnsAt(obj, key) == IF HasOwn(obj, key) THEN FnsOf(obj[key]) ELSE <<>>

\* The decorator functions of a key without those of registration reg.
FnsWithout(key, reg) ==
  IF HasOwn(decorators, key)
    THEN FnsOf(SelectSeq(decorators[key], LAMBDA e : e.reg # reg))
    ELSE <<>>

\* C4: after any sequence of registry calls a key is in the decorated state
\* (listed in the decorated keys, decorable facade entry) if and only if it
\* has at least one decorator or at least one pre or post hook.
C4_DecoratedIffDecoratorOrHook ==
  \A key \in Keys :
    LET has == \/ DecoratorsOf(key) # <<>>
               \/ HookRecord(hooks, key) # [post |-> <<>>, pre |-> <<>>]
    IN /\ Includes(decoratedFns, key) <=> has
       /\ facade[key] = "decorable" <=> has
       /\ HasOwn(decorators, key) <=> DecoratorsOf(key) # <<>>
       /\ HasOwn(hooks, key) <=> HookRecord(hooks, key) # [post |-> <<>>, pre |-> <<>>]

\* C4 witness: the closure of a decorateAll was called: one key went back to
\* its plain closure, the other lost its last decorator and stays decorated
\* for its hook alone.
C4_Witness ==
  /\ Len(removers) = 1 /\ removers[1].kind = "all"
  /\ removers[1].used /\ removers[1].fresh
  /\ facade["command1"] = "plain" /\ ~Includes(decoratedFns, "command1")
  /\ ~HasOwn(decorators, "command3") /\ HasOwn(hooks, "command3")
  /\ facade["command3"] = "decorable"

\* C8: calling the closure returned by addDecorator(key, decorator) a second
\* time right after the first leaves the decorators, the decorated keys and
\* the facade as the first call left them, and throws nothing.
C8_RemoverIdempotent ==
  [][\A i \in 1..Len(removers) :
       (/\ removers[i].kind = "decorator"
        /\ removers[i].used /\ removers[i].fresh
        /\ removers'[i].fresh)
         => /\ \A key \in Keys : FnsAt(decorators', key) = FnsAt(decorators, key)
            /\ decoratedFns' = decoratedFns
            /\ facade' = facade
            /\ error' = "none"]_vars

\* C9: the first call of the closure returned by addDecorator(key, decorator),
\* made while its registration is still in the list, leaves the key's list
\* as it was with that one registration deleted, the others in their order.
C9_RemoverRemovesItsRegistration ==
  [][\A i \in 1..Len(removers) :
       (/\ removers[i].kind = "decorator"
        /\ ~removers[i].used /\ removers'[i].used
        /\ \E j \in 1..Len(DecoratorsOf(removers[i].key)) :
              decorators[removers[i].key][j].reg = i)
         => FnsAt(decorators', removers[i].key) = FnsWithout(removers[i].key, i)
    ]_vars

\* C10: calling the closure returned by decorateAll(decorator) right after
\* decorateAll leaves every key with the decorator list it had before
\* decorateAll, and a key that had no decorator and no hook with its plain
\* closure again.
C10_DecorateAllRemoverRestores ==
  [][\A i \in 1..Len(removers) :
       (/\ removers[i].kind = "all"
        /\ ~removers[i].used /\ removers[i].fresh
        /\ removers'[i].used)
         => \A key \in Keys :
              /\ FnsAt(decorators', key) = FnsWithout(key, i)
              /\ facade'[key] = "decorable"
                   <=> (FnsWithout(key, i) # <<>> \/ HasOwn(hooks, key))
              /\ Includes(decoratedFns', key)
                   <=> (FnsWithout(key, i) # <<>> \/ HasOwn(hooks, key))
    ]_vars

\* What addDecorator and addHook throw for a key that is no function of fns.
InvalidTargetErrors ==
  {"TypeError: Cannot decorate non-function property",
   "TypeError: Cannot decorate non-Dapi function property",
   "TypeError: Cannot hook to non-function property"}

C12_RemoveAbsentHookNoOp ==
  /\ error # "TypeError: Cannot read properties of undefined"
  /\ \A hookType \in HookTypes, key \in Keys, hook \in HookFns :
       ~Includes(HookRecord(hooks, key)[hookType], hook)
         => /\ RemoveHookError(Registry, key) = "none"
            /\ RemoveHookFrom(Registry, hookType, key, hook) = Registry

\* C13: addDecorator and addHook for a key that is no own function of fns
\* throw a TypeError and leave the decorators, the hooks, the decorated keys
\* and every facade entry as they were: no registry ever holds such a key.
C13_InvalidTargetRejected ==
  [][/\ error' \in InvalidTargetErrors
          => /\ decorators' = decorators /\ hooks' = hooks
             /\ decoratedFns' = decoratedFns /\ facade' = facade
     /\ DOMAIN decorators' \subseteq Keys
     /\ DOMAIN hooks' \subseteq Keys
     /\ DOMAIN facade' = Keys
     /\ \A i \in 1..Len(decoratedFns') : decoratedFns'[i] \in Keys
    ]_vars

\* C13 witness: addDecorator for the inherited toString has just thrown on a
\* wrapper with decorators and hooks.
C13_Witness ==
  /\ error = "TypeError: Cannot decorate non-Dapi function property"
  /\ HasOwn(decorators, "command1") /\ HasOwn(hooks, "command3")

\* C14: an error thrown during a facade call by the underlying function, a
\* decorator or a hook, also by a post hook run after the promise resolved,
\* reaches the caller as it is: the call throws it or its promise rejects
\* with it.
C14_ErrorsReachCaller ==
  lastCall.thrown # "none"
    => /\ lastCall.status \in {"threw", "rejected"}
       /\ lastCall.value = ErrorOf(lastCall.thrown)

\* The events of a trace.
Events(trace) == {trace[i] : i \in 1..Len(trace)}

C16_DependenciesReplacedTogether ==
  [][(deps' # deps \/ definitionDeps' # definitionDeps)
       => /\ deps' = definitionDeps'
          /\ deps' \in DepVals
          /\ error' = "none"
    ]_vars

\* C16 witness: the dependencies were replaced.
C16_Witness ==
  /\ deps # dependencies
  /\ definitionDeps # dependencies
  /\ error = "none" /\ lastCall = NoCall

\* C17: setDependencies and updateDependencies with a falsy argument throw
\* TypeError: Dependencies must be defined and leave both dependency fields
\* as they were; neither field ever holds a falsy value.
C17_FalsyDependenciesRejected ==
  [][/\ error' = "TypeError: Dependencies must be defined"
          => deps' = deps /\ definitionDeps' = definitionDeps
     /\ deps' # Falsy /\ definitionDeps' # Falsy
    ]_vars

\* C17 witness: a falsy argument was rejected after the dependencies had been
\* replaced.
C17_Witness ==
  /\ error = "TypeError: Dependencies must be defined"
  /\ deps # dependencies

\* C18: while a call is in flight, no registry change alters the post hooks
\* that run when it resolves: they stay those registered at its invocation.
C18_InFlightCallKeepsItsHooks ==
  [][\A i \in 1..Len(inflight) :
       Len(inflight') = Len(inflight)
         => ThenCallback(inflight[i])' = ThenCallback(inflight[i])
    ]_vars

\* C19: a change of the dependencies while a call is in flight does not
\* change the bundle that call was given: the post hooks run when it settles
\* get the bundle of the invocation, as the decorators, the pre hooks and the
\* function did.
C19_InFlightCallKeepsItsDependencies ==
  /\ lastCall.status \in {"pending", "resolved"}
       => \A e \in Events(lastCall.trace) : e.deps = lastCall.deps
  /\ \A i \in 1..Len(inflight) :
       \A e \in Events(ThenCallback(inflight[i])) : e.deps = inflight[i].deps

\* C19 witness: a call resolved and ran a post hook after the dependencies
\* had been changed while it was in flight.
C19_Witness ==
  /\ lastCall.status = "resolved"
  /\ Called(lastCall.trace, "post") # <<>>
  /\ lastCall.deps # deps

HookEvents(trace) == {e \in Events(trace) : e.ev \in {"pre", "post"}}

\* C21 as claimed: the hooks are called with the arguments given to the
\* facade method only, without the dependency bundle.
C21_HooksGetCallArgumentsOnly ==
  lastCall.status \in {"returned", "pending", "resolved"}
    => \A e \in HookEvents(lastCall.trace) :
         e.deps = Falsy /\ e.params = lastCall.params

\* C21 as amended: the hooks are called with the arguments the underlying
\* function gets: the dependency bundle of the call first, then the arguments
\* given to the facade method; so are the post hooks a pending call will run.
C21_HooksGetDependenciesFirst ==
  /\ lastCall.status \in {"returned", "pending", "resolved"}
       => \A e \in HookEvents(lastCall.trace) :
            /\ e.deps # Falsy
            /\ <<e.deps, e.params>> = <<lastCall.deps, lastCall.params>>
  /\ \A i \in 1..Len(inflight) :
       \A e \in Events(ThenCallback(inflight[i])) :
         <<e.deps, e.params>> = <<inflight[i].deps, inflight[i].params>>

\* C21 witness: a call of the async key resolved and ran a post hook; its pre
\* hook had run at the call.
C21_Witness ==
  /\ lastCall.status = "resolved"
  /\ HookEvents(lastCall.trace) # {}
  /\ Len(HookRecord(hooks, lastCall.key).pre) > 0

\* C22: with hooks on the key the facade call returns what the wrapped call
\* returned: the value of a synchronous function, the promise of an
\* asynchronous one, which resolves to the function's value, whatever hooks
\* ran.
C22_HooksKeepTheResult ==
  /\ (JustCalled /\ HasOwn(hooks, lastCall.key))
       => /\ lastCall.value = lastCall.params
          /\ lastCall.status = IF fns[lastCall.key] = "async" THEN "pending"
                               ELSE "returned"
          /\ LET args == [deps |-> deps, params |-> lastCall.params]
             IN FacadeCall(lastCall.key, lastCall.params).result
                  = CommandCall(lastCall.key, args).result
  /\ (lastCall.status = "resolved" /\ lastCall.then)
       => lastCall.value = lastCall.params

\* C22 witness: a call of the async key with a pre and a post hook has just
\* returned its pending promise.
C22_Witness ==
  /\ lastCall.status = "pending"
  /\ HasOwn(hooks, lastCall.key)
  /\ Len(hooks[lastCall.key].pre) = 1 /\ Len(hooks[lastCall.key].post) = 1
  /\ ~HasOwn(decorators, lastCall.key)

\* The decorator calls of a trace.
DecoratorEvents(trace) == {e \in Events(trace) : e.ev = "enter"}

\* C23: every decorator is called with the wrapper as receiver and with
\* (next, dependencies, ...callArgs), next a callable; on a key with one
\* decorator and no hooks next is the bound underlying function, which the
\* decorator's next(deps, ...args) calls with the wrapper as receiver and
\* (deps, ...args).
C23_DecoratorArguments ==
  JustCalled
    => /\ \A e \in DecoratorEvents(lastCall.trace) :
            /\ e.self = This
            /\ e.deps = deps /\ e.params = lastCall.params
            /\ e.next # <<>> /\ e.next[Len(e.next)] = "command"
       /\ (Len(DecoratorsOf(lastCall.key)) = 1 /\ ~HasOwn(hooks, lastCall.key))
            => /\ lastCall.trace[1].next = <<"command">>
               /\ lastCall.trace[2] = Event("fn", lastCall.key,
                                            [deps |-> deps,
                                             params |-> lastCall.params], <<>>)

\* C23 witness: a call of a key with one decorator and no hooks.
C23_Witness ==
  /\ JustCalled
  /\ DecoratorsOf(lastCall.key) = <<"decorator2">>
  /\ ~HasOwn(hooks, lastCall.key)
  /\ deps # dependencies

\* C29: no empty list is kept: a key of the decorators map holds at least
\* one decorator, a hook record at least one hook in its pre or its post list.
C29_NoEmptyListKept ==
  /\ \A key \in DOMAIN decorators : Len(decorators[key]) >= 1
  /\ \A key \in DOMAIN hooks :
       Len(hooks[key].pre) + Len(hooks[key].post) >= 1

\* C29 witness: the closure of an addDecorator took the last decorator of its
\* key, whose list is gone; one key has no hook record, the other a record
\* with an empty pre list.
C29_Witness ==
  /\ Len(removers) = 1 /\ removers[1].kind = "decorator" /\ removers[1].used
  /\ ~HasOwn(decorators, removers[1].key)
  /\ ~HasOwn(hooks, "command1")
  /\ HasOwn(hooks, "command3") /\ hooks["command3"].pre = <<>>

\* How many times a trace calls the decorator.
Times(trace, decorator) ==
  Cardinality({i \in 1..Len(trace) :
                 trace[i].ev = "enter" /\ trace[i].who = decorator})

\* A step that is a decorateAll whose closure is kept as removers'[i].
IsDecorateAll(i) ==
  /\ Len(removers') = Len(removers) + 1
  /\ i = Len(removers')
  /\ removers'[i].kind = "all"

\* C25 as claimed: after decorateAll(decorator) every key has the decorator
\* appended to its list and is decorated, and a call of each key calls the
\* decorator once, once per key in total.
C25_DecorateAllOncePerKey ==
  [][\A i \in 1..Len(removers') :
       IsDecorateAll(i)
         => \A key \in Keys, params \in Params :
              /\ FnsAt(decorators', key)
                   = Append(FnsAt(decorators, key), removers'[i].fn)
              /\ facade'[key] = "decorable" /\ Includes(decoratedFns', key)
              /\ Times(FacadeCall(key, params)'.trace, removers'[i].fn) = 1
    ]_vars

\* C25 as amended: after decorateAll(decorator) every key has the decorator
\* appended to its list and is decorated, and a call of a key calls the
\* decorator once more than a call before decorateAll did: once per key in
\* total exactly when no key held the decorator before.
C25_DecorateAllAppends ==
  [][\A i \in 1..Len(removers') :
       IsDecorateAll(i)
         => \A key \in Keys, params \in Params :
              /\ FnsAt(decorators', key)
                   = Append(FnsAt(decorators, key), removers'[i].fn)
              /\ facade'[key] = "decorable" /\ Includes(decoratedFns', key)
              /\ Times(FacadeCall(key, params)'.trace, removers'[i].fn)
                   = Times(FacadeCall(key, params).trace, removers'[i].fn) + 1
    ]_vars

\* C25 witness: decorateAll has just been called with a decorator that one
\* key held already and the other did not.
C25_Witness ==
  /\ Len(removers) = 1 /\ removers[1].kind = "all"
  /\ removers[1].fresh /\ ~removers[1].used
  /\ FnsAt(decorators, "command1") = <<removers[1].fn, removers[1].fn>>
  /\ Len(FnsAt(decorators, "command3")) = 1
  /\ HasOwn(hooks, "command3")

\* C26: when the promise of a call of an async key resolves, every post hook
\* of the key (registered when the call was made and registered still) has
\* run before the caller's continuation on that promise runs.
C26_PostHooksBeforeContinuation ==
  \A i \in 1..Len(inflight) :
    LET c == inflight[i]
        jobs == PromiseJobs(Reactions(c), 1, c, "resolved")
    IN /\ Called(jobs, "await") = <<"caller">>
       /\ \A j, k \in 1..Len(jobs) :
            (jobs[j].ev = "post" /\ jobs[k].ev = "await") => j < k
       /\ \A h \in HookFns :
            (Includes(c.post, h) /\ Includes(HookRecord(hooks, c.key).post, h))
              => Includes(Called(jobs, "post"), h)

\* C27: updateDependencies(p) with a truthy partial p sets the dependencies to
\* the shallow merge of the current ones with p: each field p has takes p's
\* value, each other field keeps its value; the previous object, which the
\* pending calls hold, is left as it was.
C27_UpdateDependenciesMerges ==
  [][\A p \in Partials :
       UpdateDependencies(p)
         => /\ DOMAIN deps' = DOMAIN deps
            /\ \A field \in DOMAIN deps :
                 deps'[field] = IF p[field] = "-" THEN deps[field] ELSE p[field]
            /\ definitionDeps' = deps'
            /\ error' = "none"
            /\ \A i \in 1..Len(inflight) : inflight'[i].deps = inflight[i].deps
    ]_vars

\* C27 witness: the dependencies were updated while a call given the previous
\* ones is pending.
C27_Witness ==
  /\ deps = [foo |-> "baz", opts |-> "extra"]
  /\ definitionDeps = deps
  /\ Len(inflight) = 1
  /\ inflight[1].deps = dependencies
  /\ lastCall = NoCall
  /\ error = "none"

\* C24: an instance method read off the instance earlier behaves at each
\* call like instance[key] called at that moment: a call of it that has just
\* returned did what a facade call of the key does with the decorators and
\* the hooks registered now, whatever they were when the method was read.
C24_ReferenceFollowsRegistry ==
  (JustCalled /\ lastCall.key = reference.key)
    => /\ lastCall = CallRecord(reference.key, lastCall.params)
       /\ Called(lastCall.trace, "enter") = Reverse(DecoratorsOf(reference.key))
       /\ Called(lastCall.trace, "pre") = HookRecord(hooks, reference.key).pre

\* C24 witness: a method read while its key was plain ran a decorator and a
\* pre hook registered since.
C24_Witness ==
  /\ reference # NoReference
  /\ reference.facade = "plain"
  /\ JustCalled
  /\ lastCall.key = reference.key
  /\ Len(Called(lastCall.trace, "enter")) = 1
  /\ Len(Called(lastCall.trace, "pre")) = 1

\* The fields of a definition in the order DapiMixin is said to check them,
\* with the error of each.
DefinitionChecks ==
  <<[field |-> "type", error |-> "TypeError: Definition must have a type"],
    [field |-> "fns",
     error |-> "TypeError: Definition must have a dictionary (fns) of Dapi functions"],
    [field |-> "dependencies",
     error |-> "TypeError: Definition must have dependencies"]>>

\* A definition has a falsy value for the field.
IsMissing(def, defDeps, field) ==
  IF field = "dependencies"
    THEN defDeps = Falsy
    ELSE def[field] \in {"undefined", ""}

\* The checks a definition fails, by their place in the order.
Missing(def, defDeps) ==
  {i \in 1..Len(DefinitionChecks) :
     IsMissing(def, defDeps, DefinitionChecks[i].field)}

\* C28: createDapi on a definition whose type, fns or dependencies is falsy
\* throws a TypeError and makes no instance; the error is that of the first
\* falsy field in the order type, fns, dependencies. On a definition with all
\* three it throws nothing and makes the instance.
C28_DefinitionChecked ==
  [][wrapper = "none"
       => IF Missing(definition, definitionDeps) = {}
            THEN wrapper' = This /\ error' = "none"
            ELSE /\ wrapper' = "none"
                 /\ \E i \in Missing(definition, definitionDeps) :
                      /\ \A j \in Missing(definition, definitionDeps) : i <= j
                      /\ error' = DefinitionChecks[i].error
                 /\ UNCHANGED <<decorators, hooks, decoratedFns, facade, deps>>
    ]_vars

\* C28 witness: createDapi threw on a definition that has neither a type nor
\* dependencies.
C28_Witness ==
  /\ wrapper = "none"
  /\ definition.type = "undefined"
  /\ definition.fns = "fns"
  /\ definitionDeps = Falsy
  /\ error = "TypeError: Definition must have a type"

\* The places in the decorator list of a key of the decorators that return
\* without calling next.
ShortCircuitsAt(key) ==
  {i \in 1..Len(DecoratorsOf(key)) : DecoratorsOf(key)[i] \in ShortCircuits}

\* C30 as stated: if a decorator of the key returns without calling next, no
\* decorator registered after it, no pre hook, no post hook and not the
\* function is invoked, and the call returns that decorator's result.
C30_ShortCircuitSkipsLaterDecorators ==
  LET list == DecoratorsOf(lastCall.key)
  IN (JustCalled /\ Cardinality(ShortCircuitsAt(lastCall.key)) = 1)
       => \A k \in ShortCircuitsAt(lastCall.key) :
            /\ \A j \in (k + 1)..Len(list) :
                 ~Includes(SubSeq(list, 1, k), list[j])
                   => ~Includes(Called(lastCall.trace, "enter"), list[j])
            /\ Called(lastCall.trace, "pre") = <<>>
            /\ Called(lastCall.trace, "post") = <<>>
            /\ Called(lastCall.trace, "fn") = <<>>
            /\ lastCall.value = <<list[k]>>

\* C30: if decorators of the key return without calling next, the one
\* registered last of them is the one that cuts the call short: the decorators
\* registered after it are outside it and run, from the last registered
\* inwards; no decorator registered before it, no pre hook, no post hook and
\* not the function is invoked; the call returns its result at once, through
\* the decorators registered after it.
C30_ShortCircuitSkipsEarlierDecorators ==
  LET list == DecoratorsOf(lastCall.key)
      at == ShortCircuitsAt(lastCall.key)
  IN (JustCalled /\ at # {})
       => \E k \in at :
            /\ \A j \in at : j <= k
            /\ Called(lastCall.trace, "enter") = Reverse(SubSeq(list, k, Len(list)))
            /\ Called(lastCall.trace, "exit") = SubSeq(list, k, Len(list))
            /\ Called(lastCall.trace, "pre") = <<>>
            /\ Called(lastCall.trace, "post") = <<>>
            /\ Called(lastCall.trace, "fn") = <<>>
            /\ lastCall.status = "returned"
            /\ lastCall.value = <<list[k]>>
            /\ ~lastCall.then

\* C30 witness: a call of the async key with a pre hook was cut short by the
\* second of three decorators.
C30_Witness ==
  /\ JustCalled
  /\ lastCall.key = "command3"
  /\ HookRecord(hooks, "command3").pre # <<>>
  /\ Len(DecoratorsOf("command3")) = 3
  /\ ShortCircuitsAt("command3") = {2}
  /\ Len(Called(lastCall.trace, "enter")) = 2

\* C32: calling the closure returned by addHook (addPreHook, addPostHook) a
\* second time right after the first throws nothing and leaves the hooks, the
\* decorated keys and the facade as the first call left them.
C32_HookRemoverIdempotent ==
  [][\A i \in 1..Len(removers) :
       (/\ removers[i].kind \in HookTypes
        /\ removers[i].used /\ removers[i].fresh
        /\ InvokeRemover(i))
         => /\ error' = "none"
            /\ hooks' = hooks
            /\ decoratedFns' = decoratedFns
            /\ facade' = facade]_vars

\* C31: the dependencies of the instance change only through
\* setDependencies and updateDependencies: every other method, the closures
\* the registrations returned, the facade calls and the settling of their
\* promises leave them as they are.
C31_OnlySettersChangeDependencies ==
  [][deps' # deps
       => \/ \E newDeps \in DepVals : SetDependencies(newDeps)
          \/ \E newDeps \in Partials : UpdateDependencies(newDeps)
    ]_vars

\* C31 witness: after the dependencies were replaced, a kept closure was
\* called and a facade call was made with the replacement.
C31_Witness ==
  /\ deps = [foo |-> "baz", opts |-> "extra"]
  /\ \E i \in 1..Len(removers) : removers[i].used
  /\ JustCalled
  /\ lastCall.deps = deps

\* The elements of a list of hooks that do not remove themselves.
Staying(array) == SelectSeq(array, LAMBDA hook : hook \notin SelfRemovers)

\* C33: if a hook of a key removes itself while it runs, every other hook
\* registered for the key and the phase when the call started and not removed
\* itself is still called once in that call, in order: none is skipped.
C33_NoHookSkipped ==
  [][\A key \in Keys, params \in Params :
       CallWithSelfRemovers(key, params)
         => /\ Staying(Called(lastCall'.trace, "pre")) = Staying(hooks[key].pre)
            /\ Staying(Called(lastCall'.trace, "post")) = Staying(hooks[key].post)
    ]_vars

\* A step that is a registration or a removal on the key: addDecorator,
\* removeDecorator, addHook, removeHook, or a call of a closure addDecorator
\* or addHook returned for the key.
IsOnKey(key) ==
  \/ \E decorator \in DecoratorFns, keep \in BOOLEAN :
       AddDecorator(key, decorator, keep, MaxLocalDecorators)
  \/ \E decorator \in DecoratorFns : RemoveDecorator(key, decorator)
  \/ \E hookType \in HookTypes, hook \in HookFns, keep \in BOOLEAN :
       AddHook(hookType, key, hook, keep, MaxLocalHooks)
  \/ \E hookType \in HookTypes, hook \in HookFns : RemoveHook(hookType, key, hook)
  \/ \E i \in 1..Len(removers) :
       removers[i].kind # "all" /\ removers[i].key = key /\ InvokeRemover(i)

\* C34: a registration or a removal on a key, and a call of a closure they
\* returned, leave every other key as it was: its decorator list, its hook
\* record, whether it is decorated, and what a facade call of it does.
C34_RegistrationsAreLocal ==
  [][\A key \in Keys :
       IsOnKey(key)
         => \A sibling \in Keys \ {key} :
              /\ HasOwn(decorators', sibling) <=> HasOwn(decorators, sibling)
              /\ FnsAt(decorators', sibling) = FnsAt(decorators, sibling)
              /\ HasOwn(hooks', sibling) <=> HasOwn(hooks, sibling)
              /\ HookRecord(hooks', sibling) = HookRecord(hooks, sibling)
              /\ Includes(decoratedFns', sibling) <=> Includes(decoratedFns, sibling)
              /\ facade'[sibling] = facade[sibling]
              /\ \A params \in Params :
                   CallRecord(sibling, params)' = CallRecord(sibling, params)
    ]_vars

\* C34 witness: a closure of addDecorator was called on a key that keeps a
\* decorator, while the other key, which has none, has a hook.
C34_Witness ==
  /\ \E i \in 1..Len(removers) :
       /\ removers[i].kind = "decorator"
       /\ removers[i].key = "command1"
       /\ removers[i].used /\ removers[i].fresh
  /\ FnsAt(decorators, "command1") # <<>>
  /\ ~HasOwn(decorators, "command3")
  /\ HasOwn(hooks, "command3")
  /\ facade["command3"] = "decorable"

\* What the second instance exposes: getDependencies(), which is what it
\* passes to its functions, getDefinition().dependencies, decorators, hooks.
OtherExposes ==
  [getDependencies |-> other.deps, definitionDependencies |-> definitionDeps,
   decorators |-> other.decorators, hooks |-> other.hooks]

\* A step of the first instance: setDependencies, updateDependencies, a
\* registration.
IsOfFirstInstance ==
  \/ \E newDeps \in DepVals : SetDependencies(newDeps)
  \/ \E newDeps \in Partials : UpdateDependencies(newDeps)
  \/ \E key \in Keys, decorator \in DecoratorFns :
       AddDecorator(key, decorator, FALSE, MaxInstanceDecorators)
  \/ \E hookType \in HookTypes, key \in Keys, hook \in HookFns :
       AddHook(hookType, key, hook, FALSE, MaxInstanceHooks)

\* C35: two instances of one class are independent: setDependencies,
\* updateDependencies and the registrations on one change nothing the other
\* exposes, and for each of them getDefinition().dependencies is what its own
\* getDependencies() returns.
C35_InstancesIndependent ==
  [][/\ IsOfFirstInstance => OtherExposes' = OtherExposes
     /\ definitionDeps' = deps'
     /\ definitionDeps' = other'.deps
    ]_vars

\* C36: if the function of a key that has hooks throws when it is called, the
\* pre hooks have run, no post hook runs, the caller gets the error as it was
\* thrown, and the registries, the decorated keys and the facade are left as
\* they were.
C36_ThrowingFunctionSkipsPostHooks ==
  [][\A params \in Params :
       (HasOwn(hooks, "command1") /\ CallWithFault("command1", params, "command1"))
         => /\ lastCall'.status = "threw"
            /\ lastCall'.value = ErrorOf("command1")
            /\ Called(lastCall'.trace, "pre") = hooks["command1"].pre
            /\ Called(lastCall'.trace, "fn") = <<"command1">>
            /\ Called(lastCall'.trace, "post") = <<>>
            /\ lastCall'.trace[Len(lastCall'.trace)].ev = "fn"
            /\ UNCHANGED <<decorators, hooks, decoratedFns, facade, inflight>>
    ]_vars

\* C36 witness: the function of a key with a pre hook and a post hook threw.
C36_Witness ==
  /\ lastCall.status = "threw"
  /\ lastCall.thrown = "command1"
  /\ HasOwn(hooks, "command1")
  /\ Len(hooks["command1"].pre) = 1
  /\ Len(hooks["command1"].post) = 1
  /\ Len(Called(lastCall.trace, "pre")) = 1

\* The place of the first element of a list that is x, 0 when there is none.
FirstAt(array, x) ==
  IF Includes(array, x)
    THEN CHOOSE i \in 1..Len(array) :
           array[i] = x /\ \A j \in 1..(i - 1) : array[j] # x
    ELSE 0

\* C37: if a pre hook of a key throws, the call ends there: the pre hooks
\* registered before it have run, those registered after it, the function and
\* the post hooks are not called, and the caller gets the error.
C37_ThrowingPreHookAbortsCall ==
  LET trace == lastCall.trace
      preHooks == HookRecord(hooks, lastCall.key).pre
  IN (/\ lastCall.thrown # "none"
      /\ trace # <<>>
      /\ trace[Len(trace)].ev = "pre")
       => /\ lastCall.status = "threw"
          /\ Includes(preHooks, lastCall.thrown)
          /\ lastCall.value = ErrorOf(lastCall.thrown)
          /\ Called(trace, "pre") = SubSeq(preHooks, 1, FirstAt(preHooks, lastCall.thrown))
          /\ Called(trace, "fn") = <<>>
          /\ Called(trace, "post") = <<>>
          /\ Called(trace, "exit") = <<>>

\* C37 witness: the first of two pre hooks of the async key threw.
C37_Witness ==
  /\ lastCall.status = "threw"
  /\ lastCall.key = "command3"
  /\ lastCall.thrown = "hook1"
  /\ HookRecord(hooks, "command3").pre = <<"hook1", "hook2">>
  /\ Called(lastCall.trace, "pre") = <<"hook1">>

====
